---- MODULE Spec2Model ----
(***************************************************************************)
(* A model of the OpenRover host library: the Session Layer (rover.py,     *)
(* class Rover and get_openrover_version) and the pitstop command line     *)
(* utility (pitstop.py, amain), on top of the Protocol Channel             *)
(* (OpenRoverProtocol over SerialTrio), whose code is not part of the      *)
(* sources and is modelled from the specification, section 4.3 and 5.      *)
(*                                                                         *)
(* Every action is one synchronous section of the code: the statements a   *)
(* task runs between two suspension points (await) of the cooperative      *)
(* scheduler, or one step of the environment (the writer task draining the *)
(* outgoing queue, the device answering, the link losing a frame).         *)
(***************************************************************************)
EXTENDS Integers, Sequences, FiniteSets, TLC

VARIABLES
    motor_left, motor_right, motor_flipper, \* Rover._motor_left, _motor_right, _motor_flipper
    open,      \* the transport connection is open
    outq,      \* the channel's outgoing queue: frames submitted, not yet written
    wire,      \* frames written to the transport, not yet processed by the device
    inbuf,     \* responses sent by the device, not yet consumed by read_one
    pc,        \* where the calling task is: "idle", "get_data", "get_data_items"
    call,      \* the call in progress (its arguments and locals)
    ret,       \* the outcome of the last call that completed
    ncalls,    \* number of frame-submitting calls made so far
    pc2,       \* where a second task using the same Rover is
    call2,     \* the second task's call in progress
    ret2,      \* the outcome of the second task's last call
    nsub,      \* ghost: number of frames submitted so far (a frame's id is its serial)
    lost,      \* ghost: the ids of the frames the link has lost
    args,      \* pitstop: the parsed command line and what the process finds around it
    exitcode,  \* pitstop: the exit code of the process, once it has ended
    trace      \* pitstop, ghost: what the process did to the port, in order

chan == <<open, outq, wire, inbuf, nsub, lost>>
motors == <<motor_left, motor_right, motor_flipper>>
cli == <<args, exitcode, trace>>
peer == <<pc2, call2, ret2>>
vars == <<motors, chan, pc, call, ret, ncalls, cli, peer>>

-----------------------------------------------------------------------------
(* Bounds of the model *)

\* at most this many frame-submitting calls are made on one Rover
MaxCalls == 2
\* get_data_items is called with collections of at most this many indices
MaxBatch == 3
\* the link loses at most this many frames
MaxLost == 1
\* a port holds at most this many unread responses when it is opened
MaxStale == 2
\* pitstop is given at most this many k:v pairs
MaxSettings == 2

-----------------------------------------------------------------------------
(* Command verbs and data elements *)

NOP == 0
RELOAD_SETTINGS == 1
COMMIT_SETTINGS == 2
GET_DATA == 10
RESTART == 230
SET_FAN_SPEED == 20
FLIPPER_CALIBRATE == 250

\* the telemetry indices the callers ask for (40 is the firmware version)
VERSION_ELEMENT == 40
Keys == {14, VERSION_ELEMENT}

\* a decoded value is a tuple of naturals: one component for a scalar element,
\* three for the firmware version; None is the empty tuple
None == <<>>
Versions == {<<1, 2, 0>>}
Readings == {<<0>>, <<1>>}
DataOf(k) == IF k = VERSION_ELEMENT THEN Versions ELSE Readings

\* arguments of set_motor_speeds, and of set_fan_speed (in percent)
SpeedInputs == {<<0, 0, 0>>, <<1, 0, -1>>, <<-2, 0, 0>>, <<1, 2, 1>>, <<1, 1, -2>>}
FanInputs == {-50, 50}

-----------------------------------------------------------------------------
(* Pure helpers *)

RECURSIVE SetToSortedSeq(_)
SetToSortedSeq(S) ==
    IF S = {} THEN <<>>
    ELSE LET m == CHOOSE x \in S : \A y \in S : x <= y
         IN <<m>> \o SetToSortedSeq(S \ {m})

Range(s) == {s[i] : i \in 1..Len(s)}

\* all sequences over S of length at most n
SeqsUpTo(S, n) == UNION {[1..k -> S] : k \in 0..n}

\* the GET_DATA frames among the frames of q
Requests(q) == SelectSeq(q, LAMBDA f : f.verb = GET_DATA)

-----------------------------------------------------------------------------
(* Protocol Channel *)

\* the encoded frame; id is a ghost field, the frame's serial on its channel
Frame(left, right, flipper, verb, arg, id) ==
    [left |-> left, right |-> right, flipper |-> flipper, verb |-> verb, arg |-> arg, id |-> id]

\* OpenRoverProtocol.write_nowait: the frame is appended to the outgoing queue q
write_nowait(q, left, right, flipper, verb, arg, id) ==
    Append(q, Frame(left, right, flipper, verb, arg, id))

\* the writer task: the oldest queued frame is written to the transport
DrainFrame ==
    /\ open
    /\ outq # <<>>
    /\ wire' = Append(wire, Head(outq))
    /\ outq' = Tail(outq)
    /\ UNCHANGED <<motors, open, inbuf, nsub, lost, pc, call, ret, ncalls, peer>>

Drain == DrainFrame /\ UNCHANGED cli

\* the responses a port may hold when it is opened: answers to the requests of
\* an earlier connection, not read by it
StaleResponses == UNION {{[key |-> k, data |-> d, re |-> 0] : d \in DataOf(k)} : k \in Keys}
Stale == SeqsUpTo(StaleResponses, MaxStale)

\* SerialTrio.__aenter__: the connection is open, the port holds the responses
\* stale (left out, as <<>>, for a connection that is never read)
Opened(stale) ==
    /\ open' = TRUE
    /\ inbuf' = stale

\* SerialTrio.__aexit__: the connection is closed; what is still queued is not
\* written, what the port holds is not read
Closed ==
    /\ open' = FALSE
    /\ outq' = <<>>
    /\ inbuf' = <<>>

\* the device processes the oldest frame on the wire; it answers a GET_DATA frame
\* with the element asked for (re: ghost, the id of the request answered)
DeviceReply ==
    /\ wire # <<>>
    /\ LET f == Head(wire) IN
        IF f.verb = GET_DATA
        THEN \E d \in DataOf(f.arg) :
                inbuf' = Append(inbuf, [key |-> f.arg, data |-> d, re |-> f.id])
        ELSE inbuf' = inbuf
    /\ wire' = Tail(wire)
    /\ UNCHANGED <<motors, open, outq, nsub, lost, pc, call, ret, ncalls, cli, peer>>

\* the link drops or corrupts the oldest frame in transit: no answer comes for it
Lose ==
    /\ wire # <<>>
    /\ Cardinality(lost) < MaxLost
    /\ wire' = Tail(wire)
    /\ lost' = lost \cup {Head(wire).id}
    /\ UNCHANGED <<motors, open, outq, inbuf, nsub, pc, call, ret, ncalls, cli, peer>>

-----------------------------------------------------------------------------
(* pitstop: the command line *)

\* the exit code is a tuple: empty as long as the process has not ended
NotExited == <<>>

\* no command line: the process is not pitstop
NoArgs == [port |-> "", nports |-> 0, flash |-> "", minimumversion |-> None,
           updatesettings |-> <<>>]

\* --minimumversion N, N.N or N.N.N, as LooseVersion parses it: a list of numbers
MinimumVersions == {<<1>>, <<1, 2, 0>>, <<1, 2, 1>>}

\* the values of the enumeration CommandVerbs
CommandVerbs ==
    {NOP, RELOAD_SETTINGS, COMMIT_SETTINGS, GET_DATA, SET_FAN_SPEED, RESTART, FLIPPER_CALIBRATE}
        \cup (3..8)

SETTINGS_VERBS == 3..8

\* an argument that the parser refuses
ValueError == <<>>

\* (mutant) the value is not compared with 0 and 255
rover_command_arg_pair_unbounded(arg) ==
    IF Len(arg) # 2 THEN ValueError
    ELSE IF arg[1] \notin CommandVerbs THEN ValueError
    ELSE IF arg[1] \notin SETTINGS_VERBS THEN ValueError
    ELSE <<arg[1], arg[2]>>

\* an argument k:v of --updatesettings, given as the numbers that
\* arg.split(':', 2) separates: the pair (verb, value), or ValueError
rover_command_arg_pair(arg) ==
    IF Len(arg) # 2 THEN ValueError
    ELSE IF arg[1] \notin CommandVerbs THEN ValueError
    ELSE IF arg[1] \notin SETTINGS_VERBS THEN ValueError
    ELSE IF ~(0 <= arg[2] /\ arg[2] <= 255) THEN ValueError
    ELSE <<arg[1], arg[2]>>

\* --updatesettings arguments as typed: k:v, k alone, k:v with a verb or a value
\* that is not allowed
SettingsInputs == {<<3, 0>>, <<8, 255>>, <<3, 256>>, <<8, -1>>, <<9, 0>>, <<2, 0>>, <<3>>}

\* the command lines: --port given or not (and then the number of devices that
\* get_ftdi_device_paths finds), --flash with a file that exists or not,
\* --minimumversion, --updatesettings
ArgsInputs ==
    {[port |-> p[1], nports |-> p[2], flash |-> f, minimumversion |-> m, updatesettings |-> u] :
        p \in {<<"given", 0>>, <<"none", 0>>, <<"none", 1>>, <<"none", 2>>},
        f \in {"none", "missing", "file"},
        m \in {None} \cup MinimumVersions,
        u \in SeqsUpTo(SettingsInputs, MaxSettings)}

-----------------------------------------------------------------------------
(* Session Layer: class Rover *)

\* a call: its name, its argument (of a collection of indices, only the sorted
\* indices are kept), its locals, and ghost fields: the frames it submitted, the
\* responses it consumed, whether the call before it timed out, whether the
\* channel held no request and no response when it started, and whether the
\* collection passed held an index more than once
NoCall == [op |-> "none", arg |-> <<>>, indices |-> <<>>, pos |-> 0, result |-> <<>>,
           subs |-> <<>>, reads |-> <<>>, aftertimeout |-> FALSE, sync |-> TRUE, dups |-> FALSE]

\* the outcome of a call: what it returned or raised
Outcome(kind, value, c) ==
    [op |-> c.op, kind |-> kind, value |-> value, arg |-> c.arg, indices |-> c.indices,
     subs |-> c.subs, reads |-> c.reads, aftertimeout |-> c.aftertimeout, sync |-> c.sync,
     dups |-> c.dups]

InSync == inbuf = <<>> /\ Requests(wire) = <<>> /\ Requests(outq) = <<>>

\* the call op(arg); a telemetry call as it starts
Call(op, arg) == [NoCall EXCEPT !.op = op, !.arg = arg]
Start(op, arg) ==
    [Call(op, arg) EXCEPT !.aftertimeout = (ret.kind = "TooSlowError"), !.sync = InSync]

InRange(x) == -1 <= x /\ x <= 1

\* (mutant) the new speeds are sent at once
set_motor_speeds_sending(left, right, flipper) ==
    /\ pc = "idle"
    /\ IF InRange(left) /\ InRange(right) /\ InRange(flipper)
       THEN /\ motor_left' = left
            /\ motor_right' = right
            /\ motor_flipper' = flipper
            /\ outq' = write_nowait(outq, left, right, flipper, NOP, 0, nsub + 1)
            /\ nsub' = nsub + 1
            /\ ret' = Outcome("return", None, Call("set_motor_speeds", <<left, right, flipper>>))
       ELSE /\ ret' = Outcome("AssertionError", None,
                              Call("set_motor_speeds", <<left, right, flipper>>))
            /\ UNCHANGED <<motors, outq, nsub>>
    /\ UNCHANGED <<open, wire, inbuf, lost, pc, call, ncalls, cli, peer>>

\* (mutant) each value is stored as soon as it has been checked
set_motor_speeds_partial(left, right, flipper) ==
    /\ pc = "idle"
    /\ motor_left' = IF InRange(left) THEN left ELSE motor_left
    /\ motor_right' = IF InRange(left) /\ InRange(right) THEN right ELSE motor_right
    /\ motor_flipper' = IF InRange(left) /\ InRange(right) /\ InRange(flipper)
                        THEN flipper ELSE motor_flipper
    /\ ret' = Outcome(IF InRange(left) /\ InRange(right) /\ InRange(flipper)
                      THEN "return" ELSE "AssertionError", None,
                      Call("set_motor_speeds", <<left, right, flipper>>))
    /\ UNCHANGED <<chan, pc, call, ncalls, cli, peer>>

set_motor_speeds(left, right, flipper) ==
    /\ pc = "idle"
    /\ IF InRange(left) /\ InRange(right) /\ InRange(flipper)
       THEN /\ motor_left' = left
            /\ motor_right' = right
            /\ motor_flipper' = flipper
            /\ ret' = Outcome("return", None, Call("set_motor_speeds", <<left, right, flipper>>))
       ELSE /\ UNCHANGED motors
            /\ ret' = Outcome("AssertionError", None,
                              Call("set_motor_speeds", <<left, right, flipper>>))
    /\ UNCHANGED <<chan, pc, call, ncalls, cli, peer>>

\* (mutant) the frame carries no motor state
send_command_stopped(q, cmd, arg, id) == write_nowait(q, 0, 0, 0, cmd, arg, id)

\* Rover._send_command: the frame carries the current motor state
send_command(q, cmd, arg, id) ==
    write_nowait(q, motor_left, motor_right, motor_flipper, cmd, arg, id)

\* a call that submits one frame and returns: send_speed, set_fan_speed, flipper_calibrate
SendOnly(op, arg, verb, verbarg) ==
    /\ pc = "idle"
    /\ open
    /\ ncalls < MaxCalls
    /\ outq' = send_command(outq, verb, verbarg, nsub + 1)
    /\ nsub' = nsub + 1
    /\ ncalls' = ncalls + 1
    /\ ret' = Outcome("return", None,
                      [Call(op, arg) EXCEPT !.subs = send_command(<<>>, verb, verbarg, nsub + 1)])
    /\ UNCHANGED <<motors, open, wire, inbuf, lost, pc, call, cli, peer>>

send_speed == SendOnly("send_speed", <<>>, NOP, 0)

\* int(fan_speed * 240), fan_speed given in percent
FanArg(percent) == (percent * 240) \div 100

set_fan_speed(percent) ==
    IF 0 <= percent /\ percent <= 100
    THEN SendOnly("set_fan_speed", <<percent>>, SET_FAN_SPEED, FanArg(percent))
    ELSE /\ pc = "idle"
         /\ ret' = Outcome("AssertionError", None, Call("set_fan_speed", <<percent>>))
         /\ UNCHANGED <<motors, chan, pc, call, ncalls, cli, peer>>

flipper_calibrate == SendOnly("flipper_calibrate", <<>>, FLIPPER_CALIBRATE, FLIPPER_CALIBRATE)

\* (mutant) the key is not compared
KeyMatches_unchecked(k, index) == TRUE

\* the test `k != index` of get_data and get_data_items, negated
KeyMatches(k, index) == k = index

\* (mutant) the request is not handed to the channel
get_data_unsent(index) ==
    /\ pc = "idle"
    /\ open
    /\ ncalls < MaxCalls
    /\ nsub' = nsub + 1
    /\ ncalls' = ncalls + 1
    /\ pc' = "get_data"
    /\ call' = [Start("get_data", <<index>>) EXCEPT
                    !.subs = send_command(<<>>, GET_DATA, index, nsub + 1)]
    /\ UNCHANGED <<motors, open, outq, wire, inbuf, lost, ret, cli, peer>>

\* get_data up to its await: the request is submitted, the task waits in read_one
get_data(index) ==
    /\ pc = "idle"
    /\ open
    /\ ncalls < MaxCalls
    /\ outq' = send_command(outq, GET_DATA, index, nsub + 1)
    /\ nsub' = nsub + 1
    /\ ncalls' = ncalls + 1
    /\ pc' = "get_data"
    /\ call' = [Start("get_data", <<index>>) EXCEPT
                    !.subs = send_command(<<>>, GET_DATA, index, nsub + 1)]
    /\ UNCHANGED <<motors, open, wire, inbuf, lost, ret, cli, peer>>

\* (mutant) the response is looked at and left where it is
get_data_read_peeking ==
    /\ pc = "get_data"
    /\ inbuf # <<>>
    /\ LET r == Head(inbuf)
           c == [call EXCEPT !.reads = Append(@, r)]
       IN  ret' = IF KeyMatches(r.key, call.arg[1])
                  THEN Outcome("return", r.data, c)
                  ELSE Outcome("OpenRoverException", None, c)
    /\ pc' = "idle"
    /\ call' = NoCall
    /\ UNCHANGED <<motors, chan, ncalls, cli, peer>>

\* read_one returns inside fail_after(1): the key is compared, the call ends
get_data_read ==
    /\ pc = "get_data"
    /\ inbuf # <<>>
    /\ LET r == Head(inbuf)
           c == [call EXCEPT !.reads = Append(@, r)]
       IN  ret' = IF KeyMatches(r.key, call.arg[1])
                  THEN Outcome("return", r.data, c)
                  ELSE Outcome("OpenRoverException", None, c)
    /\ inbuf' = Tail(inbuf)
    /\ pc' = "idle"
    /\ call' = NoCall
    /\ UNCHANGED <<motors, open, outq, wire, nsub, lost, ncalls, cli, peer>>

\* (mutant) the timeout also closes the channel
get_data_timeout_closing ==
    /\ pc = "get_data"
    /\ inbuf = <<>>
    /\ ret' = Outcome("TooSlowError", None, call)
    /\ pc' = "idle"
    /\ call' = NoCall
    /\ open' = FALSE
    /\ UNCHANGED <<motors, outq, wire, inbuf, nsub, lost, ncalls, cli, peer>>

\* the deadline of fail_after(1) expires while the task waits in read_one:
\* trio.TooSlowError is raised in the task, nothing else changes
get_data_timeout ==
    /\ pc = "get_data"
    /\ inbuf = <<>>
    /\ ret' = Outcome("TooSlowError", None, call)
    /\ pc' = "idle"
    /\ call' = NoCall
    /\ UNCHANGED <<motors, chan, ncalls, cli, peer>>

\* (mutant) sorted(indices): the duplicates are kept
RECURSIVE SortedSet_dups(_)
SortedSet_dups(indices) ==
    IF indices = <<>> THEN <<>>
    ELSE LET m == CHOOSE j \in 1..Len(indices) : \A i \in 1..Len(indices) : indices[j] <= indices[i]
         IN <<indices[m]>> \o
            SortedSet_dups(SubSeq(indices, 1, m - 1) \o SubSeq(indices, m + 1, Len(indices)))

\* sorted(set(indices))
SortedSet(indices) == SetToSortedSeq(Range(indices))

\* (mutant) the requests are submitted from the last index to the first
RECURSIVE SendAll_reversed(_, _, _)
SendAll_reversed(q, indices, id) ==
    IF indices = <<>> THEN q
    ELSE SendAll_reversed(send_command(q, GET_DATA, indices[Len(indices)], id),
                          SubSeq(indices, 1, Len(indices) - 1), id + 1)

\* the first loop of get_data_items: one _send_command per index, in order
RECURSIVE SendAll(_, _, _)
SendAll(q, indices, id) ==
    IF indices = <<>> THEN q
    ELSE SendAll(send_command(q, GET_DATA, Head(indices), id), Tail(indices), id + 1)

\* get_data_items up to its first await (or up to its return, without any index)
get_data_items(arg) ==
    /\ pc = "idle"
    /\ open
    /\ ncalls < MaxCalls
    /\ LET indices == SortedSet(arg)
           c == [Start("get_data_items", <<>>) EXCEPT
                    !.indices = indices, !.pos = 1, !.dups = (Len(arg) # Len(indices)),
                    !.result = [k \in Range(indices) |-> None],
                    !.subs = SendAll(<<>>, indices, nsub + 1)]
       IN  /\ outq' = SendAll(outq, indices, nsub + 1)
           /\ nsub' = nsub + Len(indices)
           /\ IF indices = <<>>
              THEN /\ ret' = Outcome("return", c.result, c)
                   /\ UNCHANGED <<pc, call>>
              ELSE /\ pc' = "get_data_items"
                   /\ call' = c
                   /\ UNCHANGED ret
    /\ ncalls' = ncalls + 1
    /\ UNCHANGED <<motors, open, wire, inbuf, lost, cli, peer>>

\* (mutant) on a mismatch the values read so far are returned
Mismatch_partial(c) == Outcome("return", c.result, c)

\* get_data_items when a key differs from the index at its position: the raise
Mismatch(c) == Outcome("OpenRoverException", None, c)

\* one iteration of the second loop: read_one returns, the key is compared with
\* the index at this position, the value is stored; after the last one, return
get_data_items_read ==
    /\ pc = "get_data_items"
    /\ inbuf # <<>>
    /\ LET r == Head(inbuf)
           index == call.indices[call.pos]
           c == [call EXCEPT !.reads = Append(@, r)]
           stored == [c EXCEPT !.result = [@ EXCEPT ![r.key] = r.data], !.pos = @ + 1]
       IN  IF ~KeyMatches(r.key, index)
           THEN /\ ret' = Mismatch(c)
                /\ pc' = "idle"
                /\ call' = NoCall
           ELSE IF call.pos = Len(call.indices)
           THEN /\ ret' = Outcome("return", stored.result, stored)
                /\ pc' = "idle"
                /\ call' = NoCall
           ELSE /\ call' = stored
                /\ UNCHANGED <<pc, ret>>
    /\ inbuf' = Tail(inbuf)
    /\ UNCHANGED <<motors, open, outq, wire, nsub, lost, ncalls, cli, peer>>

get_data_items_timeout ==
    /\ pc = "get_data_items"
    /\ inbuf = <<>>
    /\ ret' = Outcome("TooSlowError", None, call)
    /\ pc' = "idle"
    /\ call' = NoCall
    /\ UNCHANGED <<motors, chan, ncalls, cli, peer>>

-----------------------------------------------------------------------------
(* Session Layer: get_openrover_version *)

\* whether the loop `for i in range(2)` has another iteration after attempt i
HasNextAttempt(i) == i < 2

\* up to the first await of read_one: the port is opened, the first request is
\* submitted (attempt 1 of the loop `for i in range(2)`)
probe_open ==
    /\ pc = "probe"
    /\ \E stale \in Stale : Opened(stale)
    /\ outq' = write_nowait(<<>>, 0, 0, 0, GET_DATA, VERSION_ELEMENT, nsub + 1)
    /\ nsub' = nsub + 1
    /\ pc' = "probe_read"
    /\ call' = [Call("get_openrover_version", <<>>) EXCEPT
                    !.pos = 1,
                    !.subs = write_nowait(<<>>, 0, 0, 0, GET_DATA, VERSION_ELEMENT, nsub + 1)]
    /\ UNCHANGED <<motors, wire, lost, ret, ncalls, cli, peer>>

\* the port cannot be opened: the exception is wrapped in OpenRoverException
probe_open_fails ==
    /\ pc = "probe"
    /\ ret' = Outcome("OpenRoverException", None, Call("get_openrover_version", <<>>))
    /\ pc' = "probe_done"
    /\ UNCHANGED <<motors, chan, call, ncalls, cli, peer>>

\* read_one returns: with key 40 the version is returned; with another key the
\* loop goes on, and after its last iteration the function ends without a return
probe_read ==
    /\ pc = "probe_read"
    /\ inbuf # <<>>
    /\ LET r == Head(inbuf)
           c == [call EXCEPT !.reads = Append(@, r)]
       IN  IF r.key = VERSION_ELEMENT
           THEN /\ ret' = Outcome("return", r.data, c)
                /\ Closed
                /\ pc' = "probe_done"
                /\ call' = NoCall
                /\ UNCHANGED nsub
           ELSE IF HasNextAttempt(call.pos)
           THEN /\ outq' = write_nowait(outq, 0, 0, 0, GET_DATA, VERSION_ELEMENT, nsub + 1)
                /\ nsub' = nsub + 1
                /\ inbuf' = Tail(inbuf)
                /\ call' = [c EXCEPT !.pos = @ + 1,
                               !.subs = write_nowait(@, 0, 0, 0, GET_DATA, VERSION_ELEMENT,
                                                     nsub + 1)]
                /\ UNCHANGED <<open, pc, ret>>
           ELSE /\ ret' = Outcome("return", None, c)
                /\ Closed
                /\ pc' = "probe_done"
                /\ call' = NoCall
                /\ UNCHANGED nsub
    /\ UNCHANGED <<motors, wire, lost, ncalls, cli, peer>>

\* the deadline of fail_after(1) expires while the task waits in read_one: the
\* port is closed, TooSlowError is wrapped in OpenRoverException
probe_timeout ==
    /\ pc = "probe_read"
    /\ inbuf = <<>>
    /\ ret' = Outcome("OpenRoverException", None, call)
    /\ Closed
    /\ pc' = "probe_done"
    /\ call' = NoCall
    /\ UNCHANGED <<motors, wire, nsub, lost, ncalls, cli, peer>>

InitProbe ==
    /\ motor_left = 0
    /\ motor_right = 0
    /\ motor_flipper = 0
    /\ open = FALSE
    /\ outq = <<>>
    /\ wire = <<>>
    /\ inbuf = <<>>
    /\ nsub = 0
    /\ lost = {}
    /\ pc = "probe"
    /\ call = NoCall
    /\ ret = Outcome("none", None, NoCall)
    /\ ncalls = 0
    /\ pc2 = "idle"
    /\ call2 = NoCall
    /\ ret2 = Outcome("none", None, NoCall)
    /\ args = NoArgs
    /\ exitcode = NotExited
    /\ trace = <<>>

NextProbe ==
    \/ probe_open
    \/ probe_open_fails
    \/ probe_read
    \/ probe_timeout
    \/ Drain
    \/ DeviceReply
    \/ Lose

SpecProbe == InitProbe /\ [][NextProbe]_vars

-----------------------------------------------------------------------------
(* pitstop: amain *)

\* bytes written to the port as they are, not as a frame
RAW == -1
RawBytes(bytes, id) ==
    [left |-> 0, right |-> 0, flipper |-> 0, verb |-> RAW, arg |-> 0, id |-> id, bytes |-> bytes]

\* bytes.fromhex('f701004041437f')
WakeUp == <<247, 1, 0, 64, 65, 67, 127>>

\* an entry of the ghost trace
Event(ev, verb, arg) == [ev |-> ev, verb |-> verb, arg |-> arg]
Ev(ev) == Event(ev, NOP, 0)

\* the writer task, its write recorded
CliDrain ==
    /\ DrainFrame
    /\ trace' = Append(trace, Event("write", Head(outq).verb, Head(outq).arg))
    /\ UNCHANGED <<args, exitcode>>

\* LooseVersion.__lt__: the lists of numbers are compared as Python compares lists
RECURSIVE VersionLess(_, _)
VersionLess(a, b) ==
    IF a = <<>> THEN b # <<>>
    ELSE IF b = <<>> THEN FALSE
    ELSE IF Head(a) # Head(b) THEN Head(a) < Head(b)
    ELSE VersionLess(Tail(a), Tail(b))

\* what parse_args makes of --updatesettings
updatesettings ==
    [j \in 1..Len(args.updatesettings) |-> rover_command_arg_pair(args.updatesettings[j])]

\* parse_args accepts the command line
Parses == \A j \in 1..Len(updatesettings) : updatesettings[j] # ValueError

\* any([args.flash, args.minimumversion, args.updatesettings])
AnyAction ==
    args.flash # "none" \/ args.minimumversion # None \/ args.updatesettings # <<>>

\* the stage that follows stage `from` in amain
NextStage(from) ==
    IF from = "cli" /\ args.flash # "none" THEN "flash"
    ELSE IF from \in {"cli", "flash"} /\ args.minimumversion # None THEN "version"
    ELSE IF from \in {"cli", "flash", "version"} /\ args.updatesettings # <<>> THEN "settings"
    ELSE "finish"

\* exit(code), or an exception that nothing catches (code 1)
Exit(code) ==
    /\ pc' = "exit"
    /\ exitcode' = <<code>>

\* the command line is parsed, the port is chosen
cli_start ==
    /\ pc = "cli"
    /\ IF ~Parses THEN Exit(2)
       ELSE IF ~AnyAction THEN Exit(2)
       ELSE IF args.port = "none" /\ args.nports = 0 THEN Exit(1)
       ELSE pc' = NextStage("cli") /\ UNCHANGED exitcode
    /\ UNCHANGED <<motors, chan, call, ret, ncalls, args, trace, peer>>

\* (mutant) the hex file is not looked for
flash_restart_unchecked ==
    /\ pc = "flash"
    /\ Opened(<<>>)
    /\ outq' = write_nowait(<<>>, 0, 0, 0, RESTART, 0, nsub + 1)
    /\ nsub' = nsub + 1
    /\ trace' = trace \o <<Ev("open"), Event("submit", RESTART, 0)>>
    /\ pc' = "flash_flush"
    /\ UNCHANGED <<motors, wire, lost, exitcode, call, ret, ncalls, args, peer>>

\* --flash up to the await of flush: the hex file is looked for, the port is
\* opened, RESTART is submitted
flash_restart ==
    /\ pc = "flash"
    /\ IF args.flash = "missing"
       THEN /\ Exit(1)
            /\ UNCHANGED <<chan, trace>>
       ELSE /\ Opened(<<>>)
            /\ outq' = write_nowait(<<>>, 0, 0, 0, RESTART, 0, nsub + 1)
            /\ nsub' = nsub + 1
            /\ trace' = trace \o <<Ev("open"), Event("submit", RESTART, 0)>>
            /\ pc' = "flash_flush"
            /\ UNCHANGED <<wire, lost, exitcode>>
    /\ UNCHANGED <<motors, call, ret, ncalls, args, peer>>

\* (mutant) flush is not awaited
flash_flushed_unawaited ==
    /\ pc = "flash_flush"
    /\ Closed
    /\ trace' = trace \o <<Ev("flushed"), Ev("close"), Ev("bootloader")>>
    /\ pc' = "bootloader"
    /\ UNCHANGED <<motors, wire, nsub, lost, call, ret, ncalls, args, exitcode, peer>>

\* flush returns once nothing is queued; the connection is closed, the
\* bootloader is started (subprocess.check_call)
flash_flushed ==
    /\ pc = "flash_flush"
    /\ outq = <<>>
    /\ Closed
    /\ trace' = trace \o <<Ev("flushed"), Ev("close"), Ev("bootloader")>>
    /\ pc' = "bootloader"
    /\ UNCHANGED <<motors, wire, nsub, lost, call, ret, ncalls, args, exitcode, peer>>

\* the bootloader ends: with a failure check_call raises and nothing catches it
bootloader_done ==
    /\ pc = "bootloader"
    /\ \E ok \in BOOLEAN :
        IF ok
        THEN /\ trace' = Append(trace, Ev("booted"))
             /\ pc' = "wake"
             /\ UNCHANGED exitcode
        ELSE /\ trace' = Append(trace, Ev("bootfail"))
             /\ Exit(1)
    /\ UNCHANGED <<motors, chan, call, ret, ncalls, args, peer>>

\* 'starting firmware': the port is opened, the wake-up bytes are handed to it
wake_submit ==
    /\ pc = "wake"
    /\ Opened(<<>>)
    /\ outq' = <<RawBytes(WakeUp, nsub + 1)>>
    /\ nsub' = nsub + 1
    /\ trace' = trace \o <<Ev("open"), Event("submit", RAW, 0)>>
    /\ pc' = "wake_close"
    /\ UNCHANGED <<motors, wire, lost, call, ret, ncalls, args, exitcode, peer>>

\* ... and the connection is closed
wake_close ==
    /\ pc = "wake_close"
    /\ Closed
    /\ trace' = Append(trace, Ev("close"))
    /\ pc' = NextStage("flash")
    /\ UNCHANGED <<motors, wire, nsub, lost, call, ret, ncalls, args, exitcode, peer>>

\* --minimumversion up to the await of read_one: the port is opened, the
\* version is asked for
version_request ==
    /\ pc = "version"
    /\ \E stale \in Stale : Opened(stale)
    /\ outq' = write_nowait(<<>>, 0, 0, 0, GET_DATA, VERSION_ELEMENT, nsub + 1)
    /\ nsub' = nsub + 1
    /\ trace' = trace \o <<Ev("open"), Event("submit", GET_DATA, VERSION_ELEMENT)>>
    /\ pc' = "version_read"
    /\ call' = Call("minimumversion", <<>>)
    /\ UNCHANGED <<motors, wire, lost, ret, ncalls, args, exitcode, peer>>

\* (mutant) 'could not get version' is printed, and amain goes on
VersionChecked_goes_on(actual_version) ==
    IF actual_version # None /\ VersionLess(actual_version, args.minimumversion) THEN Exit(1)
    ELSE pc' = NextStage("version") /\ UNCHANGED exitcode

\* what follows the version check: actual_version is None, below the minimum, or not
VersionChecked(actual_version) ==
    IF actual_version = None THEN Exit(1)
    ELSE IF VersionLess(actual_version, args.minimumversion) THEN Exit(1)
    ELSE pc' = NextStage("version") /\ UNCHANGED exitcode

\* read_one returns: the key is looked at, the connection is closed, the
\* version is compared
version_read ==
    /\ pc = "version_read"
    /\ inbuf # <<>>
    /\ LET r == Head(inbuf)
           actual_version == IF r.key = VERSION_ELEMENT THEN r.data ELSE None
       IN  /\ call' = [call EXCEPT !.reads = <<r>>, !.result = actual_version]
           /\ VersionChecked(actual_version)
    /\ Closed
    /\ trace' = Append(trace, Ev("close"))
    /\ UNCHANGED <<motors, wire, nsub, lost, ret, ncalls, args, peer>>

\* (mutant) the exception leaves the connection as it is
version_timeout_leaking ==
    /\ pc = "version_read"
    /\ inbuf = <<>>
    /\ trace' = trace \o <<Ev("TooSlowError")>>
    /\ Exit(1)
    /\ UNCHANGED <<motors, chan, call, ret, ncalls, args, peer>>

\* the deadline of fail_after(10) expires: the connection is closed, nothing
\* catches TooSlowError
version_timeout ==
    /\ pc = "version_read"
    /\ inbuf = <<>>
    /\ Closed
    /\ trace' = trace \o <<Ev("close"), Ev("TooSlowError")>>
    /\ Exit(1)
    /\ UNCHANGED <<motors, wire, nsub, lost, call, ret, ncalls, args, peer>>

\* the frames of --updatesettings: one per pair, in the order given
RECURSIVE SendSettings(_, _, _)
SendSettings(q, pairs, id) ==
    IF pairs = <<>> THEN q
    ELSE SendSettings(write_nowait(q, 0, 0, 0, Head(pairs)[1], Head(pairs)[2], id),
                      Tail(pairs), id + 1)

SettingsFrames ==
    write_nowait(
        SendSettings(write_nowait(<<>>, 0, 0, 0, RELOAD_SETTINGS, 0, nsub + 1),
                     updatesettings, nsub + 2),
        0, 0, 0, COMMIT_SETTINGS, 0, nsub + Len(args.updatesettings) + 2)

\* --updatesettings up to the await of flush
settings_submit ==
    /\ pc = "settings"
    /\ Opened(<<>>)
    /\ outq' = SettingsFrames
    /\ nsub' = nsub + Len(args.updatesettings) + 2
    /\ trace' = trace \o <<Ev("open")>> \o
                [j \in 1..Len(SettingsFrames) |->
                    Event("submit", SettingsFrames[j].verb, SettingsFrames[j].arg)]
    /\ pc' = "settings_flush"
    /\ UNCHANGED <<motors, wire, lost, call, ret, ncalls, args, exitcode, peer>>

\* (mutant) the connection is closed without awaiting flush
settings_flushed_unawaited ==
    /\ pc = "settings_flush"
    /\ Closed
    /\ trace' = trace \o <<Ev("flushed"), Ev("close")>>
    /\ pc' = "finish"
    /\ UNCHANGED <<motors, wire, nsub, lost, call, ret, ncalls, args, exitcode, peer>>

\* flush returns once nothing is queued; the connection is closed
settings_flushed ==
    /\ pc = "settings_flush"
    /\ outq = <<>>
    /\ Closed
    /\ trace' = trace \o <<Ev("flushed"), Ev("close")>>
    /\ pc' = "finish"
    /\ UNCHANGED <<motors, wire, nsub, lost, call, ret, ncalls, args, exitcode, peer>>

\* VROOM, exit(0)
cli_finish ==
    /\ pc = "finish"
    /\ Exit(0)
    /\ UNCHANGED <<motors, chan, call, ret, ncalls, args, trace, peer>>

InitCLI ==
    /\ motor_left = 0
    /\ motor_right = 0
    /\ motor_flipper = 0
    /\ open = FALSE
    /\ outq = <<>>
    /\ wire = <<>>
    /\ inbuf = <<>>
    /\ nsub = 0
    /\ lost = {}
    /\ pc = "cli"
    /\ call = NoCall
    /\ ret = Outcome("none", None, NoCall)
    /\ ncalls = 0
    /\ pc2 = "idle"
    /\ call2 = NoCall
    /\ ret2 = Outcome("none", None, NoCall)
    /\ args \in ArgsInputs
    /\ exitcode = NotExited
    /\ trace = <<>>

NextCLI ==
    \/ cli_start
    \/ flash_restart
    \/ flash_flushed
    \/ bootloader_done
    \/ wake_submit
    \/ wake_close
    \/ version_request
    \/ version_read
    \/ version_timeout
    \/ settings_submit
    \/ settings_flushed
    \/ cli_finish
    \/ CliDrain
    \/ DeviceReply
    \/ Lose

SpecCLI == InitCLI /\ [][NextCLI]_vars

-----------------------------------------------------------------------------
(* The processes that open the port themselves: pitstop, get_openrover_version *)

InitPort == InitCLI \/ InitProbe

\* the writer task of the process that runs
PortDrain == IF args = NoArgs THEN Drain ELSE CliDrain

NextPort ==
    \/ cli_start
    \/ flash_restart
    \/ flash_flushed
    \/ bootloader_done
    \/ wake_submit
    \/ wake_close
    \/ version_request
    \/ version_read
    \/ version_timeout
    \/ settings_submit
    \/ settings_flushed
    \/ cli_finish
    \/ probe_open
    \/ probe_open_fails
    \/ probe_read
    \/ probe_timeout
    \/ PortDrain
    \/ DeviceReply
    \/ Lose

SpecPort == InitPort /\ [][NextPort]_vars

-----------------------------------------------------------------------------
(* A Rover on an open channel, used by one task *)

Init ==
    /\ motor_left = 0
    /\ motor_right = 0
    /\ motor_flipper = 0
    /\ open = TRUE
    /\ outq = <<>>
    /\ wire = <<>>
    /\ inbuf = <<>>
    /\ nsub = 0
    /\ lost = {}
    /\ pc = "idle"
    /\ call = NoCall
    /\ ret = Outcome("none", None, NoCall)
    /\ ncalls = 0
    /\ pc2 = "idle"
    /\ call2 = NoCall
    /\ ret2 = Outcome("none", None, NoCall)
    /\ args = NoArgs
    /\ exitcode = NotExited
    /\ trace = <<>>

Next ==
    \/ \E s \in SpeedInputs : set_motor_speeds(s[1], s[2], s[3])
    \/ send_speed
    \/ \E p \in FanInputs : set_fan_speed(p)
    \/ flipper_calibrate
    \/ \E i \in Keys : get_data(i)
    \/ get_data_read
    \/ get_data_timeout
    \/ \E arg \in SeqsUpTo(Keys, MaxBatch) : get_data_items(arg)
    \/ get_data_items_read
    \/ get_data_items_timeout
    \/ Drain
    \/ DeviceReply
    \/ Lose

Spec == Init /\ [][Next]_vars

-----------------------------------------------------------------------------
(* Two tasks that use one Rover *)

\* get_data called by the second task, up to its await of read_one
get_data2(index) ==
    /\ pc2 = "idle"
    /\ ret2.kind = "none"
    /\ open
    /\ outq' = send_command(outq, GET_DATA, index, nsub + 1)
    /\ nsub' = nsub + 1
    /\ pc2' = "get_data"
    /\ call2' = [Call("get_data", <<index>>) EXCEPT
                    !.sync = InSync,
                    !.subs = send_command(<<>>, GET_DATA, index, nsub + 1)]
    /\ UNCHANGED <<motors, open, wire, inbuf, lost, pc, call, ret, ncalls, ret2, cli>>

\* read_one returns in the second task: the key is compared, the call ends
get_data2_read ==
    /\ pc2 = "get_data"
    /\ inbuf # <<>>
    /\ LET r == Head(inbuf)
           c == [call2 EXCEPT !.reads = Append(@, r)]
       IN  ret2' = IF KeyMatches(r.key, call2.arg[1])
                   THEN Outcome("return", r.data, c)
                   ELSE Outcome("OpenRoverException", None, c)
    /\ inbuf' = Tail(inbuf)
    /\ pc2' = "idle"
    /\ call2' = NoCall
    /\ UNCHANGED <<motors, open, outq, wire, nsub, lost, pc, call, ret, ncalls, cli>>

\* the first task calls get_data and get_data_items, the second get_data once; the
\* device answers every request, no deadline expires
NextTasks ==
    \/ \E i \in Keys : get_data(i)
    \/ get_data_read
    \/ \E arg \in SeqsUpTo(Keys, MaxBatch) : get_data_items(arg)
    \/ get_data_items_read
    \/ \E i \in Keys : get_data2(i)
    \/ get_data2_read
    \/ Drain
    \/ DeviceReply

SpecTasks == Init /\ [][NextTasks]_vars

-----------------------------------------------------------------------------
(* A Rover whose device answers every request in time *)

\* no frame is lost, no deadline expires
NextLive ==
    \/ \E i \in Keys : get_data(i)
    \/ get_data_read
    \/ \E arg \in SeqsUpTo(Keys, MaxBatch) : get_data_items(arg)
    \/ get_data_items_read
    \/ Drain
    \/ DeviceReply

\* the scheduler runs every task that can run: the writer task, and the calling
\* task once read_one has a response; the device answers what it receives
SpecLive ==
    /\ Init
    /\ [][NextLive]_vars
    /\ WF_vars(Drain)
    /\ WF_vars(DeviceReply)
    /\ WF_vars(get_data_read)
    /\ WF_vars(get_data_items_read)

-----------------------------------------------------------------------------
(* Properties of the Session Layer *)

\* the step leaves the frames queued as they are and may queue more: Submitted
Appends == Len(outq') >= Len(outq) /\ SubSeq(outq', 1, Len(outq)) = outq
Submitted == SubSeq(outq', Len(outq) + 1, Len(outq'))

Ascending(s) == \A j \in 1..(Len(s) - 1) : s[j] < s[j + 1]

Args(q) == [j \in 1..Len(q) |-> q[j].arg]

\* the call c submitted exactly one GET_DATA frame, for its index
OneRequest(c) ==
    Len(c.subs) = 1 /\ c.subs[1].verb = GET_DATA /\ c.subs[1].arg = c.arg[1]

\* what get_data does with the one response r it consumed
Compared(c) ==
    /\ Len(c.reads) = 1
    /\ IF c.reads[1].key = c.arg[1]
       THEN c.kind = "return" /\ c.value = c.reads[1].data
       ELSE c.kind = "OpenRoverException" /\ c.value = None

\* the step of get_data that submits: one frame is queued, no response is taken
GetDataSubmits ==
    pc = "idle" /\ pc' = "get_data" =>
        /\ outq' = outq \o call'.subs
        /\ OneRequest(call')
        /\ call'.reads = <<>>
        /\ inbuf' = inbuf

\* C1 as stated: every get_data(i) submits exactly one GET_DATA frame with arg = i
\* and then consumes exactly one response; it returns the value of that response
\* if its key is i and fails with OpenRoverException, without a value, if not.
C1_AlwaysConsumesOne ==
    ret.op = "get_data" => OneRequest(ret) /\ Compared(ret)

\* C1 amended: every get_data(i) submits exactly one GET_DATA frame with arg = i;
\* if the deadline expires first it fails with the timeout error having consumed
\* no response; otherwise it consumes exactly one response, returns its value if
\* its key is i and fails with OpenRoverException, without a value, if not.
C1_GetData ==
    /\ [][GetDataSubmits]_vars
    /\ [](ret.op = "get_data" =>
            /\ OneRequest(ret)
            /\ IF ret.kind = "TooSlowError"
               THEN ret.reads = <<>> /\ ret.value = None
               ELSE Compared(ret))

C1_Witness ==
    /\ ret.op = "get_data"
    /\ ret.kind = "OpenRoverException"
    /\ Len(ret.reads) = 1
    /\ ret.reads[1].key # ret.arg[1]

\* C2: in get_data_items, as soon as the key of the j-th response differs from
\* the j-th index of the sorted, de-duplicated list, the batch fails with
\* OpenRoverException and no mapping, not even a partial one, is returned.
C2_PositionalMatch ==
    /\ pc = "get_data_items" =>
          \A j \in 1..Len(call.reads) : call.reads[j].key = call.indices[j]
    /\ ret.op = "get_data_items"
         /\ (\E j \in 1..Len(ret.reads) : ret.reads[j].key # ret.indices[j])
       => /\ ret.kind = "OpenRoverException"
          /\ ret.value = None
          /\ \A j \in 1..(Len(ret.reads) - 1) : ret.reads[j].key = ret.indices[j]

\* a batch fails at its second position, after a first value was stored
C2_Witness ==
    /\ ret.op = "get_data_items"
    /\ ret.kind = "OpenRoverException"
    /\ Len(ret.reads) = 2
    /\ ret.reads[1].key = ret.indices[1]
    /\ ret.reads[2].key # ret.indices[2]

\* sorted(set(arg)) holds every index of arg once, in ascending order
DistinctAscending(arg) ==
    LET indices == SortedSet(arg)
    IN  /\ Ascending(indices)
        /\ Range(indices) = Range(arg)
        /\ Len(indices) = Cardinality(Range(arg))

\* the step of get_data_items that submits: one GET_DATA frame per index of the
\* sorted list, in its order, before any response is taken; without any index
\* the call returns the empty mapping at once
BatchSubmits ==
    /\ pc = "idle"
    /\ \/ pc' = "get_data_items"
       \/ pc' = "idle" /\ ncalls' # ncalls /\ ret'.op = "get_data_items"
    =>
        LET c == IF pc' = "idle" THEN ret' ELSE call'
        IN  /\ Appends
            /\ c.subs = Submitted
            /\ c.reads = <<>>
            /\ inbuf' = inbuf
            /\ \A j \in 1..Len(Submitted) : Submitted[j].verb = GET_DATA
            /\ Args(Submitted) = c.indices
            /\ pc' = "idle" <=> c.indices = <<>>
            /\ pc' = "idle" => ret'.kind = "return" /\ DOMAIN ret'.value = {}

\* a batch that succeeded returns a mapping from exactly its indices, each to the
\* value of the response that carried it
BatchResult(c) ==
    /\ Args(c.subs) = c.indices
    /\ c.kind = "return" =>
        /\ DOMAIN c.value = Range(c.indices)
        /\ Len(c.reads) = Len(c.indices)
        /\ \A j \in 1..Len(c.reads) : c.value[c.reads[j].key] = c.reads[j].data

\* C3: for every collection of indices, get_data_items submits exactly one
\* GET_DATA frame per distinct index, in ascending order and all before reading,
\* and on success returns a mapping whose keys are exactly the distinct indices,
\* each mapped to the value of the response carrying that key.
C3_Batch ==
    /\ [](ncalls = 0 => \A arg \in SeqsUpTo(Keys, MaxBatch) : DistinctAscending(arg))
    /\ [][BatchSubmits]_vars
    /\ [](pc = "get_data_items" => call.indices = SortedSet(call.indices))
    /\ [](ret.op = "get_data_items" =>
            ret.indices = SortedSet(ret.indices) /\ BatchResult(ret))

\* a collection with a repeated index gave two requests and a mapping of two keys
C3_Witness ==
    /\ ret.op = "get_data_items"
    /\ ret.kind = "return"
    /\ ret.dups
    /\ Len(ret.subs) = 2
    /\ DOMAIN ret.value = {14, VERSION_ELEMENT}

\* the ids of the requests in the channel, oldest first: those answered, those
\* written and those queued
Pipeline ==
    [j \in 1..Len(inbuf) |-> inbuf[j].re] \o
    [j \in 1..Len(wire) |-> wire[j].id] \o [j \in 1..Len(outq) |-> outq[j].id]

\* the call c started on a channel holding nothing, and none of its frames was lost
Undisturbed(c) == c.sync /\ \A j \in 1..Len(c.subs) : c.subs[j].id \notin lost

\* the responses the call c read are the answers to its requests, in their order
ReadInOrder(c) ==
    \A j \in 1..Len(c.reads) :
        /\ c.reads[j].key = (IF c.op = "get_data" THEN c.arg ELSE c.indices)[j]
        /\ c.reads[j].re = c.subs[j].id

\* C4: frames reach the transport, and responses the reader, in submission order;
\* with requests k1..kn submitted in that order on a channel holding nothing, and
\* a device that answers in order without loss, the successive read_one calls
\* return the keys k1..kn in that order.
C4_Ordering ==
    /\ Ascending(Pipeline)
    /\ pc # "idle" /\ Undisturbed(call) => ReadInOrder(call)
    /\ ret.op \in {"get_data", "get_data_items"} /\ Undisturbed(ret) =>
          ReadInOrder(ret) /\ ret.kind # "OpenRoverException"

\* in the middle of a batch: the first answer read, the second one waiting
C4_Witness ==
    /\ pc = "get_data_items"
    /\ Undisturbed(call)
    /\ Len(call.indices) = 2
    /\ Len(call.reads) = 1
    /\ inbuf # <<>>

Triple(f) == <<f.left, f.right, f.flipper>>

\* C5: every frame the Rover submits, whatever its verb, carries the motor
\* triple current at its submission, and a later set_motor_speeds changes no
\* frame already queued or written.
C5_Heartbeat ==
    [][/\ Appends =>
            \A j \in 1..Len(Submitted) : Triple(Submitted[j]) = motors
       /\ motors' # motors => outq' = outq /\ wire' = wire]_vars

\* a GET_DATA frame submitted while moving is still queued, unchanged, after the
\* motors were stopped
C5_Witness ==
    \E j \in 1..Len(outq) :
        /\ outq[j].verb = GET_DATA
        /\ Triple(outq[j]) = <<1, 0, -1>>
        /\ motors = <<0, 0, 0>>

\* C6: a get_data whose request is never answered fails with the timeout error
\* and leaves the channel open; the next get_data on the same Rover, when its
\* response arrives, returns the value for its own index.
C6_TimeoutIsolation ==
    /\ ret.kind = "TooSlowError" => open /\ ret.value = None
    /\ pc = "get_data" /\ call.aftertimeout /\ call.sync /\ inbuf # <<>> =>
          Head(inbuf).key = call.arg[1] /\ Head(inbuf).re = call.subs[1].id
    /\ ret.op = "get_data" /\ ret.aftertimeout /\ ret.sync /\ ret.reads # <<>> =>
          /\ ret.kind = "return"
          /\ ret.reads[1].key = ret.arg[1]
          /\ ret.reads[1].re = ret.subs[1].id
          /\ ret.value = ret.reads[1].data

\* a get_data succeeded right after one that timed out with its request lost
C6_Witness ==
    /\ ret.op = "get_data"
    /\ ret.aftertimeout
    /\ ret.sync
    /\ ret.kind = "return"
    /\ lost # {}
    /\ open

\* the step of set_motor_speeds(s): all of the triple is stored, or none of it
SetsAllOrNone(s) ==
    set_motor_speeds(s[1], s[2], s[3]) =>
        /\ IF InRange(s[1]) /\ InRange(s[2]) /\ InRange(s[3])
           THEN motors' = s /\ ret'.kind = "return"
           ELSE motors' = motors /\ ret'.kind = "AssertionError"
        /\ outq' = outq
        /\ wire' = wire

\* C7: the motor triple is within [-1, 1] in every component in every state;
\* set_motor_speeds with a component out of range is rejected, changes none
\* of the three values and queues no frame; in range it stores the triple given.
C7_MotorRange ==
    /\ [](InRange(motor_left) /\ InRange(motor_right) /\ InRange(motor_flipper))
    /\ [](ret.op = "set_motor_speeds" /\ ret.kind = "return" => motors = ret.arg)
    /\ [][ret' # ret /\ ret'.op = "set_motor_speeds" =>
            \A s \in SpeedInputs : SetsAllOrNone(s)]_vars

\* a triple whose second component is out of range was rejected: the first
\* component, in range, was not stored
C7_Witness ==
    /\ ret.op = "set_motor_speeds"
    /\ ret.kind = "AssertionError"
    /\ ret.arg = <<1, 2, 1>>
    /\ motors = <<0, 0, 0>>

\* the ids of the requests that the call with outcome o submitted
OwnRequests(o) == {o.subs[i].id : i \in 1..Len(o.subs)}

\* C12: every value that get_data returns or get_data_items puts in its mapping is
\* the device's reply to a GET_DATA frame that this same call submitted, whatever
\* calls came before it (timed out with their reply late, or failed part-way).
C12_OwnReplies ==
    ret.kind = "return" /\ ret.op \in {"get_data", "get_data_items"} =>
        \A j \in 1..Len(ret.reads) : ret.reads[j].re \in OwnRequests(ret)

\* the call that the step begins or completes
StepOp == IF pc' = "idle" THEN ret'.op ELSE call'.op

\* the step completes a call that only submits, with the frame of verb and arg
SubmitsOne(verb, arg) ==
    /\ Appends
    /\ Submitted = ret'.subs
    /\ Len(Submitted) = 1
    /\ Submitted[1].verb = verb
    /\ Submitted[1].arg = arg
    /\ motors' = motors

FrameEffects ==
    /\ ret' # ret /\ ret'.op = "set_motor_speeds" =>
          outq' = outq /\ nsub' = nsub /\ wire' = wire /\ inbuf' = inbuf /\ ret'.subs = <<>>
    /\ ret' # ret /\ ret'.kind = "return" /\ ret'.op = "send_speed" => SubmitsOne(NOP, 0)
    /\ ret' # ret /\ ret'.kind = "return" /\ ret'.op = "set_fan_speed" =>
          SubmitsOne(SET_FAN_SPEED, FanArg(ret'.arg[1]))
    /\ ret' # ret /\ ret'.kind = "return" /\ ret'.op = "flipper_calibrate" =>
          SubmitsOne(FLIPPER_CALIBRATE, FLIPPER_CALIBRATE)
    /\ pc = "idle" /\ pc' = "get_data" =>
          /\ Appends /\ Len(Submitted) = 1 /\ Submitted[1].verb = GET_DATA
          /\ motors' = motors
    /\ pc = "get_data" => Len(outq') <= Len(outq) /\ nsub' = nsub /\ motors' = motors
    /\ nsub' # nsub \/ (Appends /\ Submitted # <<>>) =>
          /\ pc = "idle"
          /\ ncalls' = ncalls + 1
          /\ StepOp \in {"send_speed", "set_fan_speed", "flipper_calibrate", "get_data",
                         "get_data_items"}
    /\ motors' # motors => ret'.op = "set_motor_speeds" /\ ret'.kind = "return"

Succeeded(o) == o.op \in {"get_data", "get_data_items"} /\ o.kind = "return"

\* C19: a get_data or get_data_items call that returns has consumed as many
\* responses as it submitted GET_DATA frames; after calls made one at a time that
\* all returned, no submitted request is left with its reply not consumed: a call
\* that starts with none left and returns leaves none, and so does whatever
\* happens between two calls.
C19_Balance ==
    /\ [](Succeeded(ret) => Len(ret.reads) = Len(Requests(ret.subs)))
    /\ [](pc = "idle" /\ Succeeded(ret) /\ ret.sync => InSync)
    /\ [][pc = "idle" /\ pc' = "idle" /\ InSync => InSync']_vars

\* a second call, get_data_items of two indices, returned with nothing left over
C19_Witness ==
    /\ pc = "idle"
    /\ ncalls = 2
    /\ Succeeded(ret)
    /\ ret.op = "get_data_items"
    /\ Len(ret.reads) = 2
    /\ ret.sync
    /\ InSync

-----------------------------------------------------------------------------
(* Properties of get_openrover_version *)

\* C8: get_openrover_version ends in one of two ways: it returns a version taken
\* from a response whose key is 40, or it raises OpenRoverException; it never
\* completes normally without a version.
C8_VersionOrError ==
    pc = "probe_done" =>
        \/ ret.kind = "OpenRoverException"
        \/ /\ ret.kind = "return"
           /\ ret.value \in Versions
           /\ ret.reads # <<>>
           /\ ret.reads[Len(ret.reads)].key = VERSION_ELEMENT

-----------------------------------------------------------------------------
(* Properties of pitstop *)

Happened(e) == \E j \in 1..Len(trace) : trace[j] = e

NoDevice == args.port = "none" /\ args.nports = 0

\* the version check was made and got a response with the version element
GotVersion ==
    call.op = "minimumversion" /\ call.reads # <<>> /\ call.reads[1].key = VERSION_ELEMENT

\* every action asked for on the command line was carried out
AllCompleted ==
    /\ ~NoDevice
    /\ args.flash # "none" =>
          /\ args.flash = "file"
          /\ Happened(Ev("booted"))
          /\ Happened(Event("submit", RAW, 0))
    /\ args.minimumversion # None =>
          GotVersion /\ ~VersionLess(call.reads[1].data, args.minimumversion)
    /\ args.updatesettings # <<>> =>
          Happened(Event("write", COMMIT_SETTINGS, 0)) /\ trace[Len(trace)] = Ev("close")

\* C9: pitstop, its command line parsed and asking for at least one action, ends
\* with exit code 1 when no device is found and no port was given, when the
\* firmware file does not exist,
\* when the version reported is below the minimum, and when no version response
\* is obtained (another key, or no response before the deadline); it ends with
\* exit code 0 when every action asked for completes.
C9_ExitCode ==
    pc = "exit" /\ Parses /\ AnyAction =>
        /\ NoDevice => exitcode = <<1>>
        /\ ~NoDevice /\ args.flash = "missing" => exitcode = <<1>>
        /\ call.op = "minimumversion" /\ call.reads = <<>> => exitcode = <<1>>
        /\ call.op = "minimumversion" /\ call.reads # <<>> /\ ~GotVersion => exitcode = <<1>>
        /\ GotVersion /\ VersionLess(call.reads[1].data, args.minimumversion) =>
              exitcode = <<1>>
        /\ AllCompleted => exitcode = <<0>>
        /\ exitcode = <<0>> => AllCompleted

\* the process ended with code 1 after a response that was not the version
C9_Witness ==
    /\ pc = "exit"
    /\ exitcode = <<1>>
    /\ call.op = "minimumversion"
    /\ call.reads # <<>>
    /\ call.reads[1].key # VERSION_ELEMENT

\* what --flash does to the port, in order: up to the start of the bootloader,
\* after a bootloader that failed, after one that succeeded (the wake-up bytes
\* may or may not be written before the connection is closed)
FlashStart ==
    <<Ev("open"), Event("submit", RESTART, 0), Event("write", RESTART, 0), Ev("flushed"),
      Ev("close"), Ev("bootloader")>>
FlashFailed == FlashStart \o <<Ev("bootfail")>>
FlashWake == FlashStart \o <<Ev("booted"), Ev("open"), Event("submit", RAW, 0)>>
FlashDone ==
    {FlashWake \o <<Ev("close")>>, FlashWake \o <<Event("write", RAW, 0), Ev("close")>>}

\* the trace begins as e does, as far as both go
Follows(e) ==
    \A j \in 1..(IF Len(trace) < Len(e) THEN Len(trace) ELSE Len(e)) : trace[j] = e[j]

\* C10: in the flash flow RESTART is submitted and written to the transport, the
\* connection is closed, the bootloader is invoked, and only after it succeeded
\* the wake-up bytes f7 01 00 40 41 43 7f are handed to the transport, before
\* that connection is closed: in this order, each once.
C10_FlashOrder ==
    /\ args.flash = "file" =>
          \/ Follows(FlashFailed) /\ Len(trace) <= Len(FlashFailed)
          \/ \E e \in FlashDone : Follows(e)
    /\ \A j \in 1..Len(outq) : outq[j].verb = RAW => outq[j].bytes = WakeUp
    /\ \A j \in 1..Len(wire) : wire[j].verb = RAW => wire[j].bytes = WakeUp
    /\ pc = "bootloader" => ~open /\ Happened(Event("write", RESTART, 0))

\* the flash flow ran to its end, the wake-up bytes written
C10_Witness ==
    /\ args.flash = "file"
    /\ pc = "exit"
    /\ exitcode = <<0>>
    /\ \E e \in FlashDone : Len(trace) >= Len(e) /\ Follows(e)
    /\ Happened(Event("write", RAW, 0))

\* a pair with a settings verb and a value that fits a byte
SettingsPair(p) == Len(p) = 2 /\ p[1] \in 3..8 /\ p[2] \in 0..255

\* the frames that amain submits or writes whatever --updatesettings says
FixedVerbs == {RESTART, RAW, GET_DATA, RELOAD_SETTINGS, COMMIT_SETTINGS}

\* what a step adds to the trace: each frame sent that is not one of the fixed
\* ones, and each frame sent after RELOAD_SETTINGS other than COMMIT_SETTINGS,
\* is a setting with its verb in 3..8 and its argument in 0..255
SendsSettings ==
    \A j \in (Len(trace) + 1)..Len(trace') :
        LET e == trace'[j]
            setting == e.verb \in 3..8 /\ e.arg \in 0..255
        IN  e.ev \in {"submit", "write"} =>
              /\ e.verb \notin FixedVerbs => setting
              /\ (\E i \in 1..(j - 1) : trace'[i] = Event(e.ev, RELOAD_SETTINGS, 0)) =>
                    setting \/ e = Event(e.ev, COMMIT_SETTINGS, 0)

\* C11: rover_command_arg_pair accepts a pair exactly if its verb is among 3..8
\* and its value in 0..255, and returns that verb and value; a command line with
\* another pair is refused when it is parsed (exit code 2, nothing done to the
\* port); every frame sent after RELOAD_SETTINGS, COMMIT_SETTINGS aside, has its
\* verb in 3..8 and its argument in 0..255.
C11_SettingsRange ==
    /\ [](pc = "cli" =>
            \A a \in SettingsInputs :
                /\ rover_command_arg_pair(a) # ValueError <=> SettingsPair(a)
                /\ SettingsPair(a) => rover_command_arg_pair(a) = <<a[1], a[2]>>)
    /\ []((pc # "cli" /\ \E j \in 1..Len(args.updatesettings) :
                            ~SettingsPair(args.updatesettings[j])) =>
            pc = "exit" /\ exitcode = <<2>> /\ trace = <<>> /\ nsub = 0 /\ ~open)
    /\ [][SendsSettings]_vars

\* the settings 3:0 and 8:255 were written, and COMMIT_SETTINGS after them
C11_Witness ==
    /\ args.updatesettings = <<<<3, 0>>, <<8, 255>>>>
    /\ Happened(Event("write", 3, 0))
    /\ Happened(Event("write", 8, 255))
    /\ Happened(Event("write", COMMIT_SETTINGS, 0))
    /\ pc = "exit"

\* the events of the trace from the last opening of the port on
LastOpen ==
    IF Happened(Ev("open"))
    THEN CHOOSE j \in 1..Len(trace) :
            trace[j] = Ev("open") /\ \A i \in (j + 1)..Len(trace) : trace[i] # Ev("open")
    ELSE 0
SinceOpen(ev) ==
    SelectSeq(SubSeq(trace, LastOpen + 1, Len(trace)), LAMBDA e : e.ev = ev)

\* the settings update as the command line asks for it: RELOAD_SETTINGS, the
\* pairs k:v in the order typed, COMMIT_SETTINGS
ExpectedSettings(ev) ==
    <<Event(ev, RELOAD_SETTINGS, 0)>> \o
    [j \in 1..Len(args.updatesettings) |->
        Event(ev, args.updatesettings[j][1], args.updatesettings[j][2])] \o
    <<Event(ev, COMMIT_SETTINGS, 0)>>

IsPrefix(a, b) == Len(a) <= Len(b) /\ a = SubSeq(b, 1, Len(a))

\* the settings update has been made: the process is past it
SettingsDone ==
    /\ args.updatesettings # <<>>
    /\ pc = "finish" \/ (pc = "exit" /\ exitcode = <<0>>)

\* C15: in the settings update the frames written to the transport are one
\* RELOAD_SETTINGS, one frame per pair k:v in the order of the command line and
\* one COMMIT_SETTINGS, each with the motor triple (0, 0, 0); all are written
\* before the connection is closed and before the process ends with success.
C15_SettingsWritten ==
    /\ pc = "settings_flush" =>
          /\ SinceOpen("submit") = ExpectedSettings("submit")
          /\ IsPrefix(SinceOpen("write"), ExpectedSettings("write"))
          /\ open
    /\ SettingsDone =>
          /\ SinceOpen("submit") = ExpectedSettings("submit")
          /\ SinceOpen("write") = ExpectedSettings("write")
          /\ SubSeq(trace, Len(trace) - 1, Len(trace)) = <<Ev("flushed"), Ev("close")>>
          /\ ~open
    /\ \A j \in 1..Len(outq) : Triple(outq[j]) = <<0, 0, 0>>
    /\ \A j \in 1..Len(wire) : Triple(wire[j]) = <<0, 0, 0>>

\* 8:255 and 3:0 were asked for in this order, and the process ended with success
C15_Witness ==
    /\ args.updatesettings = <<<<8, 255>>, <<3, 0>>>>
    /\ pc = "exit"
    /\ exitcode = <<0>>
    /\ SinceOpen("write") = ExpectedSettings("write")

\* how many times e is in the trace
Count(e) == Len(SelectSeq(trace, LAMBDA x : x = e))

\* the process went as far as asking for a firmware file that does not exist
FlashFails == Parses /\ AnyAction /\ ~NoDevice /\ args.flash = "missing"

\* the process ended on the version check: no response before the deadline,
\* a response with another key, or a version below the minimum
VersionFailed ==
    /\ pc = "exit"
    /\ call.op = "minimumversion"
    /\ \/ ~GotVersion
       \/ VersionLess(call.reads[1].data, args.minimumversion)

\* C16: once a precondition fails the process ends and does nothing more: with
\* the firmware file missing no RESTART frame is sent and the bootloader is not
\* invoked; with the version check failed no RELOAD_SETTINGS, settings or
\* COMMIT_SETTINGS frame is submitted; the version is asked for once.
C16_NoLaterAction ==
    /\ [](FlashFails =>
            /\ trace = <<>> /\ nsub = 0 /\ ~open
            /\ pc \notin {"cli", "flash"} => pc = "exit" /\ exitcode = <<1>>)
    /\ [](VersionFailed =>
            /\ exitcode = <<1>>
            /\ \A j \in 1..Len(trace) :
                  trace[j].ev \in {"submit", "write"} =>
                      trace[j].verb \notin {RELOAD_SETTINGS, COMMIT_SETTINGS} \cup (3..8)
            /\ Count(Event("submit", GET_DATA, VERSION_ELEMENT)) = 1
            /\ ~open)
    /\ [][pc = "exit" =>
            /\ pc' = "exit" /\ exitcode' = exitcode
            /\ trace' = trace /\ nsub' = nsub /\ open' = open]_vars

\* settings were asked for, and the version check failed on a response with
\* another key
C16_Witness ==
    /\ VersionFailed
    /\ call.reads # <<>>
    /\ args.updatesettings # <<>>
    /\ args.flash = "none"
    /\ exitcode = <<1>>

-----------------------------------------------------------------------------
(* Properties of the processes that open the port themselves *)

\* the connections that pitstop has opened and not closed
Held == Count(Ev("open")) - Count(Ev("close"))

\* C18: pitstop and get_openrover_version hold at most one connection to the port
\* at a time; each connection opened is closed again, whether its block ends
\* normally, on a timeout or on an error; none is open between the stages, while
\* the bootloader runs, or when the process or the function has ended.
C18_ExclusivePort ==
    /\ args # NoArgs => Held = (IF open THEN 1 ELSE 0)
    /\ open => pc \in {"flash_flush", "wake_close", "version_read", "settings_flush",
                       "probe_read"}
    /\ pc \in {"bootloader", "exit", "probe_done"} => ~open /\ outq = <<>>
    /\ pc = "exit" => Held = 0

\* the version check timed out; the process has ended, the connection closed
C18_Witness ==
    /\ pc = "exit"
    /\ exitcode = <<1>>
    /\ Happened(Ev("TooSlowError"))
    /\ Count(Ev("open")) >= 1
    /\ Held = 0
    /\ ~open

-----------------------------------------------------------------------------
(* Properties of two tasks on one Rover *)

\* the call with outcome o got the replies to its own requests, and no error
Served(o) ==
    /\ o.kind # "OpenRoverException"
    /\ o.kind = "return" => \A j \in 1..Len(o.reads) : o.reads[j].re \in OwnRequests(o)

\* C13: with calls of two tasks in progress on one Rover, each response goes to
\* the call whose request it answers: no call fails with OpenRoverException or
\* returns the reply to another call's request.
C13_Demultiplexed == Served(ret) /\ Served(ret2)

-----------------------------------------------------------------------------
(* Properties of a Rover whose device answers in time *)

FrameIds == 1..(MaxCalls * Cardinality(Keys))

Queued(i) == \E j \in 1..Len(outq) : outq[j].id = i
OnWire(i) == \E j \in 1..Len(wire) : wire[j].id = i

\* C14: a frame submitted with write_nowait is written to the transport without
\* any flush, and a call waiting in read_one for the answer to its GET_DATA
\* request receives it: the answer to the request it submitted.
C14_WrittenWithoutFlush ==
    /\ \A i \in FrameIds : Queued(i) ~> OnWire(i)
    /\ (pc = "get_data") ~> (pc = "idle" /\ ret.op = "get_data" /\ ret.kind = "return")
    /\ (pc = "get_data_items") ~>
          (pc = "idle" /\ ret.op = "get_data_items" /\ ret.kind = "return")
    /\ [](ret.kind = "return" => \A j \in 1..Len(ret.reads) : ret.reads[j].re \in OwnRequests(ret))

\* get_data returned the answer to its request, nothing left in the queue
C14_Witness ==
    /\ pc = "idle"
    /\ ret.op = "get_data"
    /\ ret.kind = "return"
    /\ Len(ret.reads) = 1
    /\ ret.reads[1].re \in OwnRequests(ret)
    /\ outq = <<>>
====
